---- MODULE Spec2Model ----
(***************************************************************************)
(* The fairness-based housing allocation of surjana                        *)
(* (utils/housingAllocation.ts): calculateFairnessScore and                *)
(* allocateHousing, with the arithmetic of the JavaScript number type      *)
(* (IEEE 754 binary64, round to nearest, ties to even) carried out on      *)
(* arbitrary-precision naturals.                                           *)
(***************************************************************************)
EXTENDS Integers, Sequences, FiniteSets, TLC

(***************************************************************************)
(* Arbitrary-precision naturals: little-endian sequences of limbs below    *)
(* LimbBase, without high zero limbs; <<>> is zero.  They carry the 53-bit *)
(* significands of binary64 and the exact products, sums and quotients     *)
(* that are then rounded.                                                  *)
(***************************************************************************)
LimbBits == 15

LimbBase == 32768

Significand == 53

RECURSIVE BNorm(_)
BNorm(a) ==
    IF a = <<>> THEN a
    ELSE IF a[Len(a)] = 0 THEN BNorm(SubSeq(a, 1, Len(a) - 1)) ELSE a

RECURSIVE BFromInt(_)
BFromInt(n) ==
    IF n = 0 THEN <<>> ELSE <<n % LimbBase>> \o BFromInt(n \div LimbBase)

RECURSIVE BToInt(_)
BToInt(a) ==
    IF a = <<>> THEN 0 ELSE a[1] + LimbBase * BToInt(Tail(a))

RECURSIVE BAddC(_, _, _)
BAddC(a, b, c) ==
    IF a = <<>> /\ b = <<>> THEN (IF c = 0 THEN <<>> ELSE <<c>>)
    ELSE LET x == IF a = <<>> THEN 0 ELSE a[1]
             y == IF b = <<>> THEN 0 ELSE b[1]
             s == x + y + c
         IN  <<s % LimbBase>>
               \o BAddC(IF a = <<>> THEN a ELSE Tail(a),
                        IF b = <<>> THEN b ELSE Tail(b), s \div LimbBase)

BAdd(a, b) == BAddC(a, b, 0)

\* a - b for a >= b
RECURSIVE BSubC(_, _, _)
BSubC(a, b, c) ==
    IF a = <<>> THEN <<>>
    ELSE LET y == IF b = <<>> THEN 0 ELSE b[1]
             d == a[1] - y - c
         IN  <<IF d < 0 THEN d + LimbBase ELSE d>>
               \o BSubC(Tail(a), IF b = <<>> THEN b ELSE Tail(b),
                        IF d < 0 THEN 1 ELSE 0)

BSub(a, b) == BNorm(BSubC(a, b, 0))

\* -1, 0, 1 as a < b, a = b, a > b
RECURSIVE BCmpFrom(_, _, _)
BCmpFrom(a, b, i) ==
    IF i = 0 THEN 0
    ELSE IF a[i] < b[i] THEN -1
    ELSE IF a[i] > b[i] THEN 1
    ELSE BCmpFrom(a, b, i - 1)

BCmp(a, b) ==
    IF Len(a) < Len(b) THEN -1
    ELSE IF Len(a) > Len(b) THEN 1
    ELSE BCmpFrom(a, b, Len(a))

\* a * k + c for a limb k
RECURSIVE BMulSmallC(_, _, _)
BMulSmallC(a, k, c) ==
    IF a = <<>> THEN (IF c = 0 THEN <<>> ELSE <<c>>)
    ELSE LET p == a[1] * k + c
         IN  <<p % LimbBase>> \o BMulSmallC(Tail(a), k, p \div LimbBase)

BMulSmall(a, k) == BNorm(BMulSmallC(a, k, 0))

RECURSIVE BMulAcc(_, _)
BMulAcc(a, b) ==
    IF b = <<>> THEN <<>>
    ELSE BAdd(BMulSmallC(a, b[1], 0), <<0>> \o BMulAcc(a, Tail(b)))

BMul(a, b) == BNorm(BMulAcc(a, b))

\* a * 2^n
BShl(a, n) ==
    IF a = <<>> THEN a
    ELSE [i \in 1..(n \div LimbBits) |-> 0] \o BMulSmall(a, 2 ^ (n % LimbBits))

\* floor(a / 2^n)
BShr(a, n) ==
    LET q == n \div LimbBits
        r == n % LimbBits
        h == IF q >= Len(a) THEN <<>> ELSE SubSeq(a, q + 1, Len(a))
    IN  BNorm([i \in 1..Len(h) |->
                  (h[i] \div (2 ^ r))
                    + (IF i < Len(h) THEN (h[i + 1] % (2 ^ r)) * (2 ^ (LimbBits - r))
                       ELSE 0)])

\* the bit of weight 2^i
BBit(a, i) ==
    LET l == (i \div LimbBits) + 1
    IN  IF l > Len(a) THEN 0 ELSE (a[l] \div (2 ^ (i % LimbBits))) % 2

RECURSIVE SmallBitLen(_)
SmallBitLen(n) == IF n = 0 THEN 0 ELSE 1 + SmallBitLen(n \div 2)

BBitLen(a) ==
    IF a = <<>> THEN 0 ELSE LimbBits * (Len(a) - 1) + SmallBitLen(a[Len(a)])

\* <<floor(n / d), n mod d>> for a limb d > 0, by short division from the
\* high limb down; r is the remainder carried in
RECURSIVE BDivSmallFrom(_, _, _, _)
BDivSmallFrom(n, d, i, r) ==
    IF i = 0 THEN <<<<>>, r>>
    ELSE LET t    == r * LimbBase + n[i]
             rest == BDivSmallFrom(n, d, i - 1, t % d)
         IN  <<Append(rest[1], t \div d), rest[2]>>

BDivMod(n, d) ==
    LET qr == BDivSmallFrom(n, d, Len(n), 0)
    IN  <<BNorm(qr[1]), qr[2]>>

(***************************************************************************)
(* The number type.  A finite binary64 value is (-1)^neg * m * 2^e with    *)
(* m below 2^53; it is kept in the unique form with m odd (zero: m = <<>>, *)
(* e = 0), so equal numbers are equal records.  Every operation computes   *)
(* the exact result and rounds it once, to nearest, ties to even.  The     *)
(* exponent range of binary64 (2^-1074 .. 2^1023) is never approached by   *)
(* the quantities of this program, and NaN and infinities do not arise     *)
(* from finite inputs with the non-zero literal divisors of the code.      *)
(***************************************************************************)
FZero == [neg |-> FALSE, m |-> <<>>, e |-> 0]

RECURSIVE BTrailingZeros(_)
BTrailingZeros(a) ==
    IF a[1] = 0 THEN LimbBits + BTrailingZeros(Tail(a))
    ELSE IF a[1] % 2 = 0 THEN 1 + BTrailingZeros(<<a[1] \div 2>>)
    ELSE 0

FCanon(neg, m, e) ==
    IF m = <<>> THEN FZero
    ELSE LET tz == BTrailingZeros(m)
         IN  [neg |-> neg, m |-> BShr(m, tz), e |-> e + tz]

\* (-1)^neg * (m + f) * 2^e rounded to binary64, where 0 <= f < 1 and
\* sticky says f > 0; with sticky, m has at least Significand + 2 bits
FRound(neg, m, e, sticky) ==
    LET k == BBitLen(m) - Significand
    IN  IF k <= 0 THEN FCanon(neg, m, e)
        ELSE LET q    == BShr(m, k)
                 half == BBit(m, k - 1) = 1
                 rest == sticky \/ BShl(BShr(m, k - 1), k - 1) # m
                 up   == half /\ (rest \/ BBit(q, 0) = 1)
             IN  FCanon(neg, IF up THEN BAdd(q, <<1>>) ELSE q, e + k)

\* the number an integer literal or an integer-valued input denotes
FromInt(n) == FCanon(n < 0, BFromInt(IF n < 0 THEN -n ELSE n), 0)

\* the number m * 2^e (m an integer below 2^31): an input value
Num(m, e) == FCanon(m < 0, BFromInt(IF m < 0 THEN -m ELSE m), e)

FNeg(x) == IF x.m = <<>> THEN x ELSE [x EXCEPT !.neg = ~x.neg]

\* x + y
FAdd(x, y) ==
    IF x.m = <<>> THEN y
    ELSE IF y.m = <<>> THEN x
    ELSE LET emin == IF x.e < y.e THEN x.e ELSE y.e
             xm   == BShl(x.m, x.e - emin)
             ym   == BShl(y.m, y.e - emin)
             c    == BCmp(xm, ym)
         IN  IF x.neg = y.neg THEN FRound(x.neg, BAdd(xm, ym), emin, FALSE)
             ELSE IF c = 0 THEN FZero
             ELSE IF c > 0 THEN FRound(x.neg, BSub(xm, ym), emin, FALSE)
             ELSE FRound(y.neg, BSub(ym, xm), emin, FALSE)

\* x - y
FSub(x, y) == FAdd(x, FNeg(y))

\* x * y
FMul(x, y) ==
    IF x.m = <<>> \/ y.m = <<>> THEN FZero
    ELSE FRound(x.neg # y.neg, BMul(x.m, y.m), x.e + y.e, FALSE)

\* x / y for y # 0 whose odd significand is a limb: the divisors of this
\* program are the literals 100000, 50 and 100 and the powers of ten of its
\* decimal literals, with odd significands 3125, 25 and 5
FDiv(x, y) ==
    IF x.m = <<>> THEN FZero
    ELSE LET g  == BBitLen(y.m) + Significand + 2 - BBitLen(x.m)
             s  == IF g > 0 THEN g ELSE 0
             qr == BDivMod(BShl(x.m, s), y.m[1])
         IN  FRound(x.neg # y.neg, qr[1], x.e - s - y.e, qr[2] # 0)

\* x < y: the exact difference is negative (rounding keeps its sign)
FLess(x, y) == FSub(x, y).neg

\* Math.max(x, y), Math.min(x, y) on finite numbers
MathMax(x, y) == IF FLess(x, y) THEN y ELSE x

MathMin(x, y) == IF FLess(y, x) THEN y ELSE x

\* Math.round(x) as an integer: floor(x + 1/2), computed exactly
MathRound(x) ==
    IF x.m = <<>> THEN 0
    ELSE IF x.e >= 0
    THEN (IF x.neg THEN -1 ELSE 1) * BToInt(BShl(x.m, x.e))
    ELSE LET d    == -x.e
             half == BShl(<<1>>, d - 1)
         IN  IF ~x.neg THEN BToInt(BShr(BAdd(x.m, half), d))
             ELSE IF BCmp(x.m, half) <= 0 THEN 0
             ELSE -BToInt(BShr(BAdd(BSub(x.m, half), BSub(BShl(<<1>>, d), <<1>>)), d))

\* the number a decimal literal n/d (d a power of ten) denotes: the binary64
\* nearest to the quotient
Decimal(n, d) == FDiv(FromInt(n), FromInt(d))

(***************************************************************************)
(* calculateFairnessScore.  An applicant is a record                       *)
(*   [id, name, income, familySize, hasDisability, distanceToWork,         *)
(*    fairnessScore]                                                       *)
(* whose numeric fields are numbers as above and whose optional            *)
(* fairnessScore is <<>> when absent and <<k>> when present.  A returned   *)
(* score is Math.round(score * 100) / 100, the binary64 nearest to k/100   *)
(* for the integer k = Math.round(score * 100); distinct k give distinct   *)
(* numbers in the same order, and the model carries k, the score in        *)
(* hundredths.                                                             *)
(***************************************************************************)
maxIncome == 100000

maxDistance == 50

\* incomeScore without Math.max: negative above the reference income
incomeScoreUnclamped(applicant) ==
    FSub(FromInt(100),
         FMul(FDiv(applicant.income, FromInt(maxIncome)), FromInt(100)))


\* incomeScore without the inversion: the normalized income itself
incomeScoreNotInverted(applicant) ==
    MathMax(FZero, FMul(FDiv(applicant.income, FromInt(maxIncome)), FromInt(100)))

incomeScore(applicant) ==
    MathMax(FZero,
            FSub(FromInt(100),
                 FMul(FDiv(applicant.income, FromInt(maxIncome)), FromInt(100))))

\* familySizeScore without its cap of 60 points
familySizeScoreUncapped(applicant) == FMul(applicant.familySize, FromInt(15))

familySizeScore(applicant) ==
    MathMin(FMul(applicant.familySize, FromInt(15)), FromInt(60))

disabilityScore(applicant) ==
    IF applicant.hasDisability THEN FromInt(30) ELSE FromInt(0)

\* distanceScore without Math.max: negative above the reference distance
distanceScoreUnclamped(applicant) ==
    FSub(FromInt(100),
         FMul(FDiv(applicant.distanceToWork, FromInt(maxDistance)),
              FromInt(100)))

distanceScore(applicant) ==
    MathMax(FZero,
            FSub(FromInt(100),
                 FMul(FDiv(applicant.distanceToWork, FromInt(maxDistance)),
                      FromInt(100))))

calculateFairnessScore(applicant) ==
    LET s0 == FromInt(0)
        s1 == FAdd(s0, FMul(incomeScore(applicant), Decimal(4, 10)))
        s2 == FAdd(s1, FMul(familySizeScore(applicant), Decimal(25, 100)))
        s3 == FAdd(s2, FMul(disabilityScore(applicant), Decimal(2, 10)))
        s4 == FAdd(s3, FMul(distanceScore(applicant), Decimal(15, 100)))
    IN  MathRound(FMul(s4, FromInt(100)))

(***************************************************************************)
(* allocateHousing, statement by statement, on the array operations it     *)
(* calls.                                                                  *)
(***************************************************************************)
\* v || 0 for an optional score v: undefined and 0 are falsy
OrZero(v) == IF v = <<>> THEN 0 ELSE IF v[1] = 0 THEN 0 ELSE v[1]

\* the comparator with its operands exchanged: ascending order
compareAscending(a, b) == OrZero(a.fairnessScore) - OrZero(b.fairnessScore)

\* the comparator (a, b) => (b.fairnessScore || 0) - (a.fairnessScore || 0);
\* the difference of two scores has the sign of the difference in hundredths
compare(a, b) == OrZero(b.fairnessScore) - OrZero(a.fairnessScore)

\* a callback that keeps a fairnessScore the object already carries
MapCallbackKeep(applicant) ==
    [arg    |-> applicant,
     result |-> IF applicant.fairnessScore # <<>> THEN applicant
                ELSE [applicant EXCEPT
                        !.fairnessScore = <<calculateFairnessScore(applicant)>>]]

\* a callback that writes the score onto the object it was given and
\* returns that object
MapCallbackInPlace(applicant) ==
    [arg    |-> [applicant EXCEPT
                   !.fairnessScore = <<calculateFairnessScore(applicant)>>],
     result |-> [applicant EXCEPT
                   !.fairnessScore = <<calculateFairnessScore(applicant)>>]]

\* a callback that builds the object field by field and takes
\* distanceToWork from income
MapCallbackWrongField(applicant) ==
    [arg    |-> applicant,
     result |-> [applicant EXCEPT
                   !.fairnessScore = <<calculateFairnessScore(applicant)>>,
                   !.distanceToWork = applicant.income]]

\* the callback of applicants.map, applicant => ({...applicant,
\* fairnessScore: calculateFairnessScore(applicant)}): arg is the object it
\* was given as the call leaves it, result the new object, a copy with
\* fairnessScore set or overwritten
MapCallback(applicant) ==
    [arg    |-> applicant,
     result |-> [applicant EXCEPT
                   !.fairnessScore = <<calculateFairnessScore(applicant)>>]]


\* x placed before the elements it compares equal to: the insertion of a
\* sort that is not stable
RECURSIVE SortInsertUnstable(_, _)
SortInsertUnstable(arr, x) ==
    IF arr = <<>> THEN <<x>>
    ELSE IF compare(arr[Len(arr)], x) < 0 THEN Append(arr, x)
    ELSE Append(SortInsertUnstable(SubSeq(arr, 1, Len(arr) - 1), x), arr[Len(arr)])

\* x placed into the sorted array arr after every element that does not
\* compare greater than it
RECURSIVE SortInsert(_, _)
SortInsert(arr, x) ==
    IF arr = <<>> THEN <<x>>
    ELSE IF compare(arr[Len(arr)], x) <= 0 THEN Append(arr, x)
    ELSE Append(SortInsert(SubSeq(arr, 1, Len(arr) - 1), x), arr[Len(arr)])

\* a sort that leaves the array as it is
ArraySortNone(arr) == arr

\* Array.prototype.sort with the comparator above: a stable sort (ECMAScript
\* 2019, which the browsers a React 18 and Vite build targets implement)
RECURSIVE ArraySort(_)
ArraySort(arr) ==
    IF arr = <<>> THEN arr
    ELSE SortInsert(ArraySort(SubSeq(arr, 1, Len(arr) - 1)), arr[Len(arr)])

\* slices with an inclusive end, taken from the end of the array, and empty
\* when end is beyond the array
ArraySliceInclusive(arr, start, end) ==
    IF end + 1 > start THEN SubSeq(arr, start + 1, IF end + 1 < Len(arr) THEN end + 1 ELSE Len(arr))
    ELSE <<>>

ArraySliceLast(arr, start, end) ==
    IF end >= Len(arr) THEN arr ELSE SubSeq(arr, Len(arr) - end + 1, Len(arr))

ArraySliceNoClamp(arr, start, end) ==
    IF end > Len(arr) \/ end <= start THEN <<>> ELSE SubSeq(arr, start + 1, end)

\* a slice that takes a falsy end (0) for an absent one, as slice(start,
\* end || undefined) does: the whole array from start
ArraySliceFalsyEnd(arr, start, end) ==
    IF end = 0 THEN SubSeq(arr, start + 1, Len(arr))
    ELSE IF end < 0 THEN SubSeq(arr, start + 1, Len(arr) + end)
    ELSE SubSeq(arr, start + 1, IF end < Len(arr) THEN end ELSE Len(arr))


\* a slice that takes a negative end for 0: nothing is selected
ArraySliceNegativeEmpty(arr, start, end) ==
    IF end <= start THEN <<>>
    ELSE SubSeq(arr, start + 1, IF end < Len(arr) THEN end ELSE Len(arr))

\* arr.slice(start, end) for integers: negative indices count from the end,
\* both are clamped to the array
ArraySlice(arr, start, end) ==
    LET len   == Len(arr)
        k     == IF start < 0 THEN (IF len + start > 0 THEN len + start ELSE 0)
                 ELSE (IF start < len THEN start ELSE len)
        final == IF end < 0 THEN (IF len + end > 0 THEN len + end ELSE 0)
                 ELSE (IF end < len THEN end ELSE len)
    IN  IF final > k THEN SubSeq(arr, k + 1, final) ELSE <<>>

(***************************************************************************)
(* Inputs.                                                                 *)
(***************************************************************************)
MaxApplicants == 3

MaxUnits == 4

NegUnits == 1

MaxFamilySize == 6


\* Strings that are computed are sequences of one-character strings.
DigitChars == <<"0", "1", "2", "3", "4", "5", "6", "7", "8", "9">>

\* n.toString() for an integer n >= 0
RECURSIVE NumberToString(_)
NumberToString(n) ==
    IF n < 10 THEN <<DigitChars[n + 1]>>
    ELSE Append(NumberToString(n \div 10), DigitChars[(n % 10) + 1])

\* str.padStart(targetLength, padString) for a one-character padString: a
\* string that is long enough is returned as it is
PadStart(str, targetLength, padString) ==
    IF Len(str) >= targetLength THEN str
    ELSE [k \in 1..(targetLength - Len(str)) |-> padString] \o str

names ==
    << "Sarah Johnson", "Michael Chen", "Emily Davis", "David Wilson",
       "Maria Garcia", "James Brown", "Jennifer Miller", "Robert Taylor",
       "Lisa Anderson", "Christopher Lee", "Amanda White", "Daniel Harris",
       "Jessica Martinez", "Matthew Clark", "Ashley Lewis", "Joshua Walker" >>

\* the applicant at 0-based position index of a collection, with the fields f:
\* the id `APP-${(index + 1).toString().padStart(3, '0')}` and the name
\* names[index % names.length]
MakeApplicant(index, f) ==
    [id             |-> <<"A", "P", "P", "-">>
                           \o PadStart(NumberToString(index + 1), 3, "0"),
     name           |-> names[(index % Len(names)) + 1],
     income         |-> f.income,
     familySize     |-> f.familySize,
     hasDisability  |-> f.hasDisability,
     distanceToWork |-> f.distanceToWork,
     fairnessScore  |-> f.fairnessScore]

Fields(income, familySize, hasDisability, distanceToWork, fairnessScore) ==
    [income |-> income, familySize |-> FromInt(familySize),
     hasDisability |-> hasDisability, distanceToWork |-> distanceToWork,
     fairnessScore |-> fairnessScore]

\* The applicants a population is drawn from: scores 76.00 (twice, once with a
\* stale fairnessScore of 1.00 already on the object), 64.72, 50.00, 10.00
\* (with a stale 99.99) and 3.75.
Profiles ==
    { Fields(Num(0, 0), 4, TRUE, Num(0, 0), <<>>),
      Fields(Num(0, 0), 4, TRUE, Num(0, 0), <<100>>),
      Fields(Num(125, -1), 1, TRUE, Num(0, 0), <<>>),
      Fields(Num(50000, 0), 4, FALSE, Num(0, 0), <<>>),
      Fields(Num(84375, 0), 1, FALSE, Num(50, 0), <<9999>>),
      Fields(Num(100000, 0), 1, FALSE, Num(50, 0), <<>>) }

\* the populations: up to MaxApplicants applicants with distinct ids
Populations ==
    UNION { { [i \in 1..n |-> MakeApplicant(i - 1, p[i])] : p \in [1..n -> Profiles] }
            : n \in 0..MaxApplicants }

\* the applicants the scorer is tried on: incomes 0 .. 150000 and commutes
\* 0 .. 60, whole and fractional, family sizes up to MaxFamilySize, and the
\* values outside the Applicant domain that the code does not reject
IncomeValues ==
    { Num(0, 0), Num(1, -1), Num(25, -1), Num(125, -1), Num(20000, 0),
      Num(50000, 0), Num(84375, 0), Num(99999, 0), Num(100000, 0),
      Num(150000, 0), Num(-50000, 0) }

CommuteValues ==
    { Num(0, 0), Num(1, -2), Num(1, 0), Num(25, -1), Num(25, 0), Num(45, 0),
      Num(99, -1), Num(50, 0), Num(60, 0), Num(-10, 0) }

FamilyValues == (-1)..MaxFamilySize

ScorerInputs ==
    { MakeApplicant(0, Fields(i, f, d, c, s)) :
        i \in IncomeValues, f \in FamilyValues, d \in BOOLEAN,
        c \in CommuteValues, s \in {<<>>, <<9999>>} }

\* the applicants two scores are compared on: pairs that differ in one of
\* hasDisability, familySize, income and distanceToWork, the second having
\* the disability, the larger family, the higher income or the longer
\* commute; incomes and commutes in ascending order
PairIncomes ==
    << Num(0, 0), Num(125, -1), Num(84375, 0), Num(100000, 0),
       Num(200001, -1), Num(150000, 0) >>

PairCommutes ==
    << Num(0, 0), Num(1, -2), Num(50, 0), Num(201, -2), Num(60, 0) >>

PairFamilies == 1..MaxFamilySize

DisabilityPairs ==
    { <<Fields(PairIncomes[i], f, FALSE, PairCommutes[c], <<>>),
        Fields(PairIncomes[i], f, TRUE, PairCommutes[c], <<>>)>> :
        i \in DOMAIN PairIncomes, f \in PairFamilies, c \in DOMAIN PairCommutes }

FamilyPairs ==
    { <<Fields(PairIncomes[i], fg[1], d, PairCommutes[c], <<>>),
        Fields(PairIncomes[i], fg[2], d, PairCommutes[c], <<>>)>> :
        i \in DOMAIN PairIncomes, d \in BOOLEAN, c \in DOMAIN PairCommutes,
        fg \in { q \in PairFamilies \X PairFamilies :
                   q[2] = q[1] + 1 \/ (q[1] >= 4 /\ q[2] > q[1]) } }

IncomePairs ==
    { <<Fields(PairIncomes[ij[1]], f, d, PairCommutes[c], <<>>),
        Fields(PairIncomes[ij[2]], f, d, PairCommutes[c], <<>>)>> :
        f \in {1, 4}, d \in BOOLEAN, c \in DOMAIN PairCommutes,
        ij \in { q \in (DOMAIN PairIncomes) \X (DOMAIN PairIncomes) : q[1] < q[2] } }

CommutePairs ==
    { <<Fields(PairIncomes[i], f, d, PairCommutes[ck[1]], <<>>),
        Fields(PairIncomes[i], f, d, PairCommutes[ck[2]], <<>>)>> :
        i \in DOMAIN PairIncomes, f \in {1, 4}, d \in BOOLEAN,
        ck \in { q \in (DOMAIN PairCommutes) \X (DOMAIN PairCommutes) : q[1] < q[2] } }

ScorerPairs ==
    { <<MakeApplicant(0, p[1]), MakeApplicant(1, p[2])>> :
        p \in DisabilityPairs \cup FamilyPairs \cup IncomePairs \cup CommutePairs }

(***************************************************************************)
(* State.                                                                  *)
(***************************************************************************)
VARIABLES
    applicants,            \* the caller's applicant array
    availableUnits,        \* the unit count the caller passes
    applicantsWithScores,  \* the array map builds and sort sorts in place
                           \* (sortedApplicants is the same array)
    allocated,             \* what allocateHousing returned
    applicant,             \* the object passed to calculateFairnessScore
    score,                 \* what calculateFairnessScore returned, <<>> before
    pc,                    \* the statement the call is at, "done" after it
    calls,                 \* the locals of the calls of several callers, or
                           \* the earlier calls of the one caller
    component,             \* the state of the mounted component:
                           \* FairHousingAllocator, or the Properties page
    timers                 \* the pending setTimeout callbacks, as closures

vars ==
    <<applicants, availableUnits, applicantsWithScores, allocated, applicant,
      score, pc, calls, component, timers>>

\* no component is mounted
NoComponent ==
    [applicants |-> <<>>, allocatedApplicants |-> <<>>, availableUnits |-> 0,
     loading |-> FALSE, mounted |-> FALSE]

NoApplicant == MakeApplicant(0, Fields(FZero, 1, FALSE, FZero, <<>>))

\* a caller calls allocateHousing(applicants, availableUnits)
Init ==
    /\ applicants \in Populations
    /\ availableUnits \in (-NegUnits)..MaxUnits
    /\ applicantsWithScores = <<>>
    /\ allocated = <<>>
    /\ applicant = NoApplicant
    /\ score = <<>>
    /\ pc = "map"
    /\ calls = <<>>
    /\ component = NoComponent
    /\ timers = <<>>

\* applicants.map calls its callback on the next element and stores the result
AllocateMap ==
    /\ pc = "map"
    /\ Len(applicantsWithScores) < Len(applicants)
    /\ LET i  == Len(applicantsWithScores) + 1
           cb == MapCallback(applicants[i])
       IN  /\ applicants' = [applicants EXCEPT ![i] = cb.arg]
           /\ applicantsWithScores' = Append(applicantsWithScores, cb.result)
    /\ UNCHANGED <<availableUnits, allocated, applicant, score, pc>>
    /\ UNCHANGED <<calls, component, timers>>

\* map has returned; applicantsWithScores.sort(...) sorts the new array
AllocateSort ==
    /\ pc = "map"
    /\ Len(applicantsWithScores) = Len(applicants)
    /\ applicantsWithScores' = ArraySort(applicantsWithScores)
    /\ pc' = "slice"
    /\ UNCHANGED <<applicants, availableUnits, allocated, applicant, score>>
    /\ UNCHANGED <<calls, component, timers>>

\* a return that rejects a negative unit count with an exception: the call
\* ends in an error and returns nothing
AllocateReturnRejectsNegative ==
    /\ pc = "slice"
    /\ IF availableUnits < 0
       THEN pc' = "error" /\ UNCHANGED allocated
       ELSE /\ allocated' = ArraySlice(applicantsWithScores, 0, availableUnits)
            /\ pc' = "done"
    /\ UNCHANGED <<applicants, availableUnits, applicantsWithScores, applicant, score>>
    /\ UNCHANGED <<calls, component, timers>>

\* return sortedApplicants.slice(0, availableUnits)
AllocateReturn ==
    /\ pc = "slice"
    /\ allocated' = ArraySlice(applicantsWithScores, 0, availableUnits)
    /\ pc' = "done"
    /\ UNCHANGED <<applicants, availableUnits, applicantsWithScores, applicant, score>>
    /\ UNCHANGED <<calls, component, timers>>

Next == AllocateMap \/ AllocateSort \/ AllocateReturn

Spec == Init /\ [][Next]_vars

\* a caller calls calculateFairnessScore(applicant)
InitScorer ==
    /\ applicants = <<>>
    /\ availableUnits = 0
    /\ applicantsWithScores = <<>>
    /\ allocated = <<>>
    /\ applicant \in ScorerInputs
    /\ score = <<>>
    /\ pc = "score"
    /\ calls = <<>>
    /\ component = NoComponent
    /\ timers = <<>>

\* a scorer that rejects an applicant outside the Applicant domain with an
\* exception: the call ends in an error and returns nothing
CalculateValidates ==
    /\ pc = "score"
    /\ IF \/ applicant.income.neg
          \/ applicant.distanceToWork.neg
          \/ applicant.familySize.neg \/ applicant.familySize.m = <<>>
       THEN pc' = "error" /\ UNCHANGED score
       ELSE /\ score' = <<calculateFairnessScore(applicant)>>
            /\ pc' = "done"
    /\ UNCHANGED <<applicants, availableUnits, applicantsWithScores, allocated, applicant>>
    /\ UNCHANGED <<calls, component, timers>>

\* calculateFairnessScore(applicant) returns
Calculate ==
    /\ pc = "score"
    /\ score' = <<calculateFairnessScore(applicant)>>
    /\ pc' = "done"
    /\ UNCHANGED <<applicants, availableUnits, applicantsWithScores, allocated, applicant>>
    /\ UNCHANGED <<calls, component, timers>>

NextScorer == Calculate

SpecScorer == InitScorer /\ [][NextScorer]_vars

\* a caller calls allocateHousing on two applicants that differ in one
\* field, with a unit for each
InitPairs ==
    /\ applicants \in ScorerPairs
    /\ availableUnits = 2
    /\ applicantsWithScores = <<>>
    /\ allocated = <<>>
    /\ applicant = NoApplicant
    /\ score = <<>>
    /\ pc = "map"
    /\ calls = <<>>
    /\ component = NoComponent
    /\ timers = <<>>

SpecPairs == InitPairs /\ [][Next]_vars

(***************************************************************************)
(* Several callers of allocateHousing on one applicant array.  Each call   *)
(* has its own availableUnits, applicantsWithScores and result; the array  *)
(* it was given is shared.  A call runs statement by statement, as above,  *)
(* and the statements of different calls interleave.  Before the callers   *)
(* start, one call runs alone on the same array, for every applicant.      *)
(***************************************************************************)
MaxCallers == 2

CallUnits == 1

\* applicants in ascending score order: 3.75, 10.00 (with a stale 99.99 on
\* the object), 50.00, 64.72, 76.00, 76.00 (with a stale 1.00)
CallProfiles ==
    << Fields(Num(100000, 0), 1, FALSE, Num(50, 0), <<>>),
       Fields(Num(84375, 0), 1, FALSE, Num(50, 0), <<9999>>),
       Fields(Num(50000, 0), 4, FALSE, Num(0, 0), <<>>),
       Fields(Num(125, -1), 1, TRUE, Num(0, 0), <<>>),
       Fields(Num(0, 0), 4, TRUE, Num(0, 0), <<>>),
       Fields(Num(0, 0), 4, TRUE, Num(0, 0), <<100>>) >>

CallPopulations ==
    { [i \in 1..n |-> MakeApplicant(i - 1, CallProfiles[i])] :
        n \in 0..(IF MaxApplicants < Len(CallProfiles) THEN MaxApplicants
                  ELSE Len(CallProfiles)) }

InitCalls ==
    /\ applicants \in CallPopulations
    /\ availableUnits = Len(applicants)
    /\ applicantsWithScores = <<>>
    /\ allocated = <<>>
    /\ applicant = NoApplicant
    /\ score = <<>>
    /\ pc = "map"
    /\ calls \in [1..MaxCallers ->
                    { [pc |-> "map", availableUnits |-> u,
                       applicantsWithScores |-> <<>>, allocated |-> <<>>] :
                        u \in 0..CallUnits }]
    /\ component = NoComponent
    /\ timers = <<>>

\* the map of caller c calls its callback on the next element
CallMap(c) ==
    /\ pc = "done"
    /\ calls[c].pc = "map"
    /\ Len(calls[c].applicantsWithScores) < Len(applicants)
    /\ LET i  == Len(calls[c].applicantsWithScores) + 1
           cb == MapCallback(applicants[i])
       IN  /\ applicants' = [applicants EXCEPT ![i] = cb.arg]
           /\ calls' = [calls EXCEPT
                          ![c].applicantsWithScores = Append(@, cb.result)]
    /\ UNCHANGED <<availableUnits, applicantsWithScores, allocated, applicant, score, pc>>
    /\ UNCHANGED <<component, timers>>

\* the sort of caller c sorts the array its map built
CallSort(c) ==
    /\ pc = "done"
    /\ calls[c].pc = "map"
    /\ Len(calls[c].applicantsWithScores) = Len(applicants)
    /\ calls' = [calls EXCEPT ![c].applicantsWithScores = ArraySort(@),
                              ![c].pc = "slice"]
    /\ UNCHANGED <<applicants, availableUnits, applicantsWithScores, allocated, applicant, score, pc>>
    /\ UNCHANGED <<component, timers>>

\* the call of caller c returns its slice
CallReturn(c) ==
    /\ pc = "done"
    /\ calls[c].pc = "slice"
    /\ calls' = [calls EXCEPT
                   ![c].allocated = ArraySlice(calls[c].applicantsWithScores, 0,
                                               calls[c].availableUnits),
                   ![c].pc = "done"]
    /\ UNCHANGED <<applicants, availableUnits, applicantsWithScores, allocated, applicant, score, pc>>
    /\ UNCHANGED <<component, timers>>

NextCalls == \E c \in DOMAIN calls : CallMap(c) \/ CallSort(c) \/ CallReturn(c)

SpecCalls == InitCalls /\ [][Next \/ NextCalls]_vars

\* ---------------------------------------------------------------------
\* A caller that calls allocateHousing a second time, with the same
\* applicants in another order or with one applicant changed in one field,
\* and the same unit count. calls keeps the first call: its arguments, the
\* array it sorted and its result.

\* applicants scoring 76.00, 50.00, 76.00 (with a stale 1.00 on the object),
\* 10.00: the first and the third tie
TiedProfiles ==
    << Fields(Num(0, 0), 4, TRUE, Num(0, 0), <<>>),
       Fields(Num(50000, 0), 4, FALSE, Num(0, 0), <<>>),
       Fields(Num(0, 0), 4, TRUE, Num(0, 0), <<100>>),
       Fields(Num(84375, 0), 1, FALSE, Num(50, 0), <<>>) >>

\* applicants scoring 50.00, 64.72, 3.75, 76.00, 10.00: no two tie
DistinctProfiles ==
    << Fields(Num(50000, 0), 4, FALSE, Num(0, 0), <<>>),
       Fields(Num(125, -1), 1, TRUE, Num(0, 0), <<>>),
       Fields(Num(100000, 0), 1, FALSE, Num(50, 0), <<>>),
       Fields(Num(0, 0), 4, TRUE, Num(0, 0), <<>>),
       Fields(Num(84375, 0), 1, FALSE, Num(50, 0), <<9999>>) >>

AgainPopulations ==
    { [i \in 1..n |-> MakeApplicant(i - 1, list[i])] :
        n \in 0..(IF MaxApplicants < 4 THEN MaxApplicants ELSE 4),
        list \in {TiedProfiles, DistinctProfiles} }

\* the applicant a with one field changed in the direction the scorer
\* favours: a lower income, a larger family, a disability, a shorter commute
Improvements(a) ==
    {[a EXCEPT !.income = PairIncomes[j]] :
        j \in {j \in DOMAIN PairIncomes : FLess(PairIncomes[j], a.income)}}
    \cup {[a EXCEPT !.familySize = FromInt(g)] :
        g \in {g \in PairFamilies : FLess(a.familySize, FromInt(g))}}
    \cup (IF a.hasDisability THEN {} ELSE {[a EXCEPT !.hasDisability = TRUE]})
    \cup {[a EXCEPT !.distanceToWork = PairCommutes[j]] :
        j \in {j \in DOMAIN PairCommutes :
                 FLess(PairCommutes[j], a.distanceToWork)}}

InitAgain ==
    /\ applicants \in AgainPopulations
    /\ availableUnits \in (-NegUnits)..MaxUnits
    /\ applicantsWithScores = <<>>
    /\ allocated = <<>>
    /\ applicant = NoApplicant
    /\ score = <<>>
    /\ pc = "map"
    /\ calls = <<>>
    /\ component = NoComponent
    /\ timers = <<>>

\* the first call as the caller keeps it
Returned ==
    [applicants |-> applicants, availableUnits |-> availableUnits,
     applicantsWithScores |-> applicantsWithScores, allocated |-> allocated]

\* the first call has returned; the caller calls again with the applicants
\* in another order
CallPermuted ==
    /\ pc = "done"
    /\ calls = <<>>
    /\ \E p \in Permutations(DOMAIN applicants) :
          applicants' = [i \in DOMAIN applicants |-> applicants[p[i]]]
    /\ calls' = <<Returned>>
    /\ applicantsWithScores' = <<>>
    /\ allocated' = <<>>
    /\ pc' = "map"
    /\ UNCHANGED <<availableUnits, applicant, score, component, timers>>

\* the first call has returned; the caller calls again with one applicant
\* changed in one field
CallImproved ==
    /\ pc = "done"
    /\ calls = <<>>
    /\ \E i \in DOMAIN applicants : \E b \in Improvements(applicants[i]) :
          applicants' = [applicants EXCEPT ![i] = b]
    /\ calls' = <<Returned>>
    /\ applicantsWithScores' = <<>>
    /\ allocated' = <<>>
    /\ pc' = "map"
    /\ UNCHANGED <<availableUnits, applicant, score, component, timers>>

NextAgain == CallPermuted \/ CallImproved

SpecAgain == InitAgain /\ [][Next \/ NextAgain]_vars

(***************************************************************************)
(* generateSampleApplicants and the FairHousingAllocator component, the    *)
(* caller of allocateHousing.  The component holds applicants,             *)
(* allocatedApplicants, availableUnits and loading; its effect fills       *)
(* applicants on mount, the Available Units input sets availableUnits, and *)
(* the Run button starts a timeout whose callback calls allocateHousing    *)
(* with the applicants and availableUnits of the render the click came     *)
(* from.  A handler runs to completion: while the callback's call of       *)
(* allocateHousing runs (pc not "idle") no other handler does.             *)
(***************************************************************************)
sampleCount == 25

\* the Math.random() draws of one generateSampleApplicants call: for the
\* 0-based index, four numerators of draws in sixteenths
RandomStreams ==
    { [index \in 0..(sampleCount - 1) |->
          << (index * 7 + seed) % 16, (index * 5 + seed) % 16,
             (index * 3 + seed) % 16, (index * 11 + seed) % 16 >>] :
        seed \in {0, 9} }


\* a generator whose familySize is Math.floor(r * 6), without the + 1
generateSampleApplicantsFromZero(count, random) ==
    [i \in 1..count |->
        MakeApplicant(i - 1,
            Fields(FromInt(((random[i - 1][1] * 80000) \div 16) + 20000),
                   (random[i - 1][2] * 6) \div 16,
                   random[i - 1][3] * 10 < 2 * 16,
                   FromInt(((random[i - 1][4] * 45) \div 16) + 1),
                   <<>>))]

\* generateSampleApplicants(count) with the draws random: income
\* Math.floor(r * 80000) + 20000, familySize Math.floor(r * 6) + 1,
\* hasDisability r < 0.2, distanceToWork Math.floor(r * 45) + 1, and no
\* fairnessScore
generateSampleApplicants(count, random) ==
    [i \in 1..count |->
        MakeApplicant(i - 1,
            Fields(FromInt(((random[i - 1][1] * 80000) \div 16) + 20000),
                   ((random[i - 1][2] * 6) \div 16) + 1,
                   random[i - 1][3] * 10 < 2 * 16,
                   FromInt(((random[i - 1][4] * 45) \div 16) + 1),
                   <<>>))]

IsDigit(ch) == \E k \in DOMAIN DigitChars : DigitChars[k] = ch

DigitValue(ch) == (CHOOSE k \in DOMAIN DigitChars : DigitChars[k] = ch) - 1

\* the value of the longest prefix of decimal digits of str after the value
\* acc, and whether there was a digit
RECURSIVE ParseDigits(_, _, _)
ParseDigits(str, acc, any) ==
    IF str # <<>> /\ IsDigit(str[1])
    THEN ParseDigits(Tail(str), acc * 10 + DigitValue(str[1]), TRUE)
    ELSE <<acc, any>>

RECURSIVE SkipWhiteSpace(_)
SkipWhiteSpace(str) ==
    IF str # <<>> /\ str[1] = " " THEN SkipWhiteSpace(Tail(str)) ELSE str

\* parseInt(str) for the strings a number input yields (no 0x prefix):
\* leading white space, a sign, then decimal digits up to the first other
\* character; <<>> is NaN, <<n>> the integer n
ParseInt(str) ==
    LET s1     == SkipWhiteSpace(str)
        signed == s1 # <<>> /\ s1[1] \in {"+", "-"}
        digits == ParseDigits(IF signed THEN Tail(s1) ELSE s1, 0, FALSE)
    IN  IF ~digits[2] THEN <<>>
        ELSE IF signed /\ s1[1] = "-" THEN <<-digits[1]>>
        ELSE <<digits[1]>>

\* v || 1 for a parseInt result v: NaN and 0 are falsy
OrOne(v) == IF v = <<>> THEN 1 ELSE IF v[1] = 0 THEN 1 ELSE v[1]

\* the values e.target.value of the Available Units input takes: the empty
\* string (a cleared field, or text that is no number) or a floating-point
\* number; min and max do not restrict what is typed
UnitEntries ==
    { <<>>, <<"0">>, <<"3">>, <<"-", "5">>, <<"2", ".", "7">>, <<"3", "0">>,
      <<"1", "e", "2">> }

\* the component after its first render: useState([]), useState([]),
\* useState(10), useState(false); the effect has not run
InitUI ==
    /\ applicants = <<>>
    /\ availableUnits = 0
    /\ applicantsWithScores = <<>>
    /\ allocated = <<>>
    /\ applicant = NoApplicant
    /\ score = <<>>
    /\ pc = "idle"
    /\ calls = <<>>
    /\ component = [applicants |-> <<>>, allocatedApplicants |-> <<>>,
                    availableUnits |-> 10, loading |-> FALSE, mounted |-> FALSE]
    /\ timers = <<>>

\* useEffect(() => setApplicants(generateSampleApplicants(25)), [])
Mount ==
    /\ pc = "idle"
    /\ ~component.mounted
    /\ \E random \in RandomStreams :
          component' = [component EXCEPT
                          !.applicants = generateSampleApplicants(sampleCount, random),
                          !.mounted = TRUE]
    /\ UNCHANGED <<applicants, availableUnits, applicantsWithScores, allocated, applicant, score, pc>>
    /\ UNCHANGED <<calls, timers>>

\* onChange of the Available Units input:
\* setAvailableUnits(parseInt(e.target.value) || 1)
ChangeUnits(value) ==
    /\ pc = "idle"
    /\ component.mounted
    /\ component' = [component EXCEPT !.availableUnits = OrOne(ParseInt(value))]
    /\ UNCHANGED <<applicants, availableUnits, applicantsWithScores, allocated, applicant, score, pc>>
    /\ UNCHANGED <<calls, timers>>


\* a Run button that is not disabled while loading
ClickRunWhileLoading ==
    /\ pc = "idle"
    /\ component.mounted
    /\ component' = [component EXCEPT !.loading = TRUE,
                                      !.allocatedApplicants = <<>>]
    /\ timers' = Append(timers, [applicants     |-> component.applicants,
                                 availableUnits |-> component.availableUnits])
    /\ UNCHANGED <<applicants, availableUnits, applicantsWithScores, allocated, applicant, score, pc>>
    /\ UNCHANGED calls

\* handleAllocateHousing, the onClick of the Run button, disabled while
\* loading
ClickRun ==
    /\ pc = "idle"
    /\ component.mounted
    /\ ~component.loading
    /\ component' = [component EXCEPT !.loading = TRUE,
                                      !.allocatedApplicants = <<>>]
    /\ timers' = Append(timers, [applicants     |-> component.applicants,
                                 availableUnits |-> component.availableUnits])
    /\ UNCHANGED <<applicants, availableUnits, applicantsWithScores, allocated, applicant, score, pc>>
    /\ UNCHANGED calls

\* the timeout fires: its callback calls allocateHousing(applicants,
\* availableUnits) with the values of its closure
TimeoutFires ==
    /\ pc = "idle"
    /\ timers # <<>>
    /\ applicants' = Head(timers).applicants
    /\ availableUnits' = Head(timers).availableUnits
    /\ applicantsWithScores' = <<>>
    /\ allocated' = <<>>
    /\ pc' = "map"
    /\ timers' = Tail(timers)
    /\ UNCHANGED <<applicant, score, calls, component>>

\* allocateHousing has returned: setAllocatedApplicants(allocated),
\* setLoading(false); the locals of the call are gone
TimeoutReturns ==
    /\ pc = "done"
    /\ component' = [component EXCEPT !.allocatedApplicants = allocated,
                                      !.loading = FALSE]
    /\ applicants' = <<>>
    /\ availableUnits' = 0
    /\ applicantsWithScores' = <<>>
    /\ allocated' = <<>>
    /\ pc' = "idle"
    /\ UNCHANGED <<applicant, score, calls, timers>>

NextUI ==
    \/ Mount
    \/ \E value \in UnitEntries : ChangeUnits(value)
    \/ ClickRun
    \/ TimeoutFires
    \/ TimeoutReturns

SpecUI == InitUI /\ [][NextUI \/ Next]_vars

\* The scheduling of the page: the browser fires a pending timeout, and the
\* callback it runs is synchronous code that runs to its end. The steps of
\* the running call are described by what they do to pc and to the length
\* of the mapped array, for any score in hundredths between 0 and 100.
MapRuns ==
    /\ pc = "map"
    /\ Len(applicantsWithScores) < Len(applicants)
    /\ \E k \in 0..10000 :
          applicantsWithScores' =
              Append(applicantsWithScores,
                     [applicants[Len(applicantsWithScores) + 1]
                        EXCEPT !.fairnessScore = <<k>>])
    /\ UNCHANGED <<applicants, availableUnits, allocated, applicant, score, pc>>
    /\ UNCHANGED <<calls, component, timers>>

SortRuns ==
    /\ pc = "map"
    /\ Len(applicantsWithScores) = Len(applicants)
    /\ pc' = "slice"

ReturnRuns ==
    /\ pc = "slice"
    /\ pc' = "done"

\* ---------------------------------------------------------------------
\* A caller that generates count sample applicants and allocates a unit to
\* each: allocateHousing(generateSampleApplicants(count), count).
InitSample ==
    /\ applicants = <<>>
    /\ availableUnits \in 0..sampleCount
    /\ applicantsWithScores = <<>>
    /\ allocated = <<>>
    /\ applicant = NoApplicant
    /\ score = <<>>
    /\ pc = "generate"
    /\ calls = <<>>
    /\ component = NoComponent
    /\ timers = <<>>

Generate ==
    /\ pc = "generate"
    /\ \E random \in RandomStreams :
          applicants' = generateSampleApplicants(availableUnits, random)
    /\ pc' = "map"
    /\ UNCHANGED <<availableUnits, applicantsWithScores, allocated, applicant, score>>
    /\ UNCHANGED <<calls, component, timers>>

SpecSample == InitSample /\ [][Generate \/ Next]_vars

SpecUIFair ==
    /\ SpecUI
    /\ WF_vars(TimeoutFires)
    /\ WF_vars(MapRuns)
    /\ WF_pc(SortRuns)
    /\ WF_pc(ReturnRuns)
    /\ WF_vars(TimeoutReturns)


(***************************************************************************)
(* The Properties page: its list of properties, the search that filters    *)
(* and sorts it, and the pagination controls.                               *)
(***************************************************************************)
itemsPerPage == 12

mockLength == 50

\* the largest number of properties the fetch returns
MaxProperties == 73

UpperChars ==
    << "A", "B", "C", "D", "E", "F", "G", "H", "I", "J", "K", "L", "M",
       "N", "O", "P", "Q", "R", "S", "T", "U", "V", "W", "X", "Y", "Z" >>

LowerChars ==
    << "a", "b", "c", "d", "e", "f", "g", "h", "i", "j", "k", "l", "m",
       "n", "o", "p", "q", "r", "s", "t", "u", "v", "w", "x", "y", "z" >>

\* str.toLowerCase() for ASCII text
ToLowerCase(str) ==
    [k \in DOMAIN str |->
        IF \E u \in DOMAIN UpperChars : UpperChars[u] = str[k]
        THEN LowerChars[CHOOSE u \in DOMAIN UpperChars : UpperChars[u] = str[k]]
        ELSE str[k]]

\* str.includes(search)
Includes(str, search) ==
    \E k \in 0..(Len(str) - Len(search)) :
        SubSeq(str, k + 1, k + Len(search)) = search

RECURSIVE TrimEnd(_)
TrimEnd(str) ==
    IF str # <<>> /\ str[Len(str)] = " "
    THEN TrimEnd(SubSeq(str, 1, Len(str) - 1)) ELSE str

\* str.trim() for text whose only white space is the space
Trim(str) == TrimEnd(SkipWhiteSpace(str))

Cities ==
    << <<"G", "u", "r", "g", "a", "o", "n">>,
       <<"F", "a", "r", "i", "d", "a", "b", "a", "d">>,
       <<"D", "e", "l", "h", "i">> >>

PropertyTypes == <<"apartment", "house", "villa">>

MockAmenities == <<"Parking", "Security", "Gym", "Swimming Pool", "Garden">>

\* the Math.random() draws of the mock data: for the 0-based index i, the
\* numerators of eight draws in sixteenths (price, area, bedrooms,
\* bathrooms, amenities, verified, featured, demandScore)
PropertyStreams ==
    { [i \in 0..(MaxProperties - 1) |->
          << (i * 7 + seed) % 16, (i * 5 + seed) % 16, (i * 3 + seed) % 16,
             (i * 11 + seed) % 16, (i * 13 + seed) % 16, (i * 9 + seed) % 16,
             (i + seed) % 16, (i * 15 + seed) % 16 >>] :
        seed \in {4, 11} }

\* Array.from({ length }, (_, i) => ({...})): the fields of a Property that
\* the search reads
mockProperties(length, random) ==
    [k \in 1..length |->
        LET i == k - 1
            sector == <<"S", "e", "c", "t", "o", "r", " ">>
                        \o NumberToString(10 + (i % 40))
        IN  [id           |-> <<"p", "r", "o", "p", "-">> \o NumberToString(i + 1),
             address      |-> sector \o <<",", " ">> \o Cities[(i % 3) + 1],
             price        |-> ((random[i][1] * 50000000) \div 16) + 1000000,
             area         |-> ((random[i][2] * 2000) \div 16) + 500,
             bedrooms     |-> NumberToString(((random[i][3] * 4) \div 16) + 1),
             bathrooms    |-> NumberToString(((random[i][4] * 3) \div 16) + 1),
             propertyType |-> PropertyTypes[(i % 3) + 1],
             amenities    |-> SubSeq(MockAmenities, 1, ((random[i][5] * 5) \div 16) + 1),
             verified     |-> random[i][6] * 10 > 3 * 16,
             featured     |-> random[i][7] * 10 > 8 * 16,
             demandScore  |-> ((random[i][8] * 40) \div 16) + 60,
             location     |-> [area |-> sector, city |-> Cities[(i % 3) + 1]]]]

AnyOption == <<"a", "n", "y">>

FivePlus == <<"5", "+">>

\* the filters of the SearchBar before any is set, and after Clear
DefaultFilters ==
    [propertyType |-> "all", priceRange |-> [min |-> 0, max |-> 10000000],
     bedrooms |-> AnyOption, bathrooms |-> AnyOption,
     areaRange |-> [min |-> 0, max |-> 5000], amenities |-> <<>>,
     sortBy |-> "relevance"]

\* the searches made: a query and the filters of the SearchBar
Searches ==
    { <<<<>>, DefaultFilters>>,
      <<<<" ", " ">>, [DefaultFilters EXCEPT !.sortBy = "newest"]>>,
      <<<<"G", "U", "R", "G", "A", "O", "N">>, DefaultFilters>>,
      <<<<"s", "e", "c", "t", "o", "r", " ", "1">>,
        [DefaultFilters EXCEPT !.sortBy = "price-low"]>>,
      <<<<"z", "z", "z">>, DefaultFilters>>,
      <<<<>>, [DefaultFilters EXCEPT !.propertyType = "villa"]>>,
      <<<<>>, [DefaultFilters EXCEPT !.propertyType = "plot"]>>,
      <<<<>>, [DefaultFilters EXCEPT !.priceRange = [min |-> 20000000, max |-> 10000000],
                                     !.sortBy = "price-high"]>>,
      <<<<>>, [DefaultFilters EXCEPT !.priceRange = [min |-> 0, max |-> 5000000]]>>,
      <<<<>>, [DefaultFilters EXCEPT !.bedrooms = FivePlus]>>,
      <<<<>>, [DefaultFilters EXCEPT !.bedrooms = <<"2">>,
                                     !.bathrooms = <<"1">>]>>,
      <<<<>>, [DefaultFilters EXCEPT !.bathrooms = FivePlus]>>,
      <<<<>>, [DefaultFilters EXCEPT !.areaRange = [min |-> 1000, max |-> 2000],
                                     !.sortBy = "area-large"]>>,
      <<<<>>, [DefaultFilters EXCEPT !.amenities = <<"Gym", "Lift">>,
                                     !.sortBy = "demand-high"]>> }

\* a >= b for the results of parseInt: false when a is NaN
AtLeastInt(a, b) == a # <<>> /\ a[1] >= b

\* the conjunction of the filter callbacks of handleSearch that apply
Matches(property, query, filters) ==
    /\ Trim(query) # <<>> =>
          \/ Includes(ToLowerCase(property.address), ToLowerCase(query))
          \/ Includes(ToLowerCase(property.location.area), ToLowerCase(query))
          \/ Includes(ToLowerCase(property.location.city), ToLowerCase(query))
    /\ filters.propertyType # "all" => property.propertyType = filters.propertyType
    /\ filters.priceRange.min > 0 => property.price >= filters.priceRange.min
    /\ filters.priceRange.max < 10000000 => property.price <= filters.priceRange.max
    /\ filters.bedrooms # AnyOption =>
          IF filters.bedrooms = FivePlus
          THEN AtLeastInt(ParseInt(property.bedrooms), 5)
          ELSE property.bedrooms = filters.bedrooms
    /\ filters.bathrooms # AnyOption =>
          IF filters.bathrooms = FivePlus
          THEN AtLeastInt(ParseInt(property.bathrooms), 5)
          ELSE property.bathrooms = filters.bathrooms
    /\ filters.areaRange.min > 0 => property.area >= filters.areaRange.min
    /\ filters.areaRange.max < 5000 => property.area <= filters.areaRange.max
    /\ Len(filters.amenities) > 0 =>
          \E k \in DOMAIN filters.amenities :
              \E m \in DOMAIN property.amenities :
                  property.amenities[m] = filters.amenities[k]

\* the comparator of the sort that sortBy selects
compareProperties(sortBy, a, b) ==
    CASE sortBy = "price-low"   -> a.price - b.price
      [] sortBy = "price-high"  -> b.price - a.price
      [] sortBy = "area-large"  -> b.area - a.area
      [] sortBy = "demand-high" -> b.demandScore - a.demandScore
      [] sortBy = "newest" ->
            IF a.featured /\ ~b.featured THEN -1
            ELSE IF ~a.featured /\ b.featured THEN 1
            ELSE 0
      [] OTHER ->
            IF a.featured /\ ~b.featured THEN -1
            ELSE IF ~a.featured /\ b.featured THEN 1
            ELSE IF a.verified /\ ~b.verified THEN -1
            ELSE IF ~a.verified /\ b.verified THEN 1
            ELSE b.demandScore - a.demandScore

\* filtered.sort(comparator), a stable sort: the element at position i goes
\* behind the elements that compare less than it, and those that compare
\* equal and stand before it
SortProperties(sortBy, arr) ==
    LET rank == [i \in DOMAIN arr |->
                   Cardinality({j \in DOMAIN arr :
                       \/ compareProperties(sortBy, arr[j], arr[i]) < 0
                       \/ /\ compareProperties(sortBy, arr[j], arr[i]) = 0
                          /\ j <= i})]
    IN  [r \in DOMAIN arr |-> arr[CHOOSE i \in DOMAIN arr : rank[i] = r]]

\* the Properties component after its first render: useState([]) twice,
\* useState(true) for loading, useState(1) for currentPage
InitProperties ==
    /\ applicants = <<>>
    /\ availableUnits = 0
    /\ applicantsWithScores = <<>>
    /\ allocated = <<>>
    /\ applicant = NoApplicant
    /\ score = <<>>
    /\ pc = "idle"
    /\ calls = <<>>
    /\ component = [properties |-> <<>>, filteredProperties |-> <<>>,
                    loading |-> TRUE, currentPage |-> 1]
    /\ timers = <<>>

\* the derived values of a render
totalPages == (Len(component.filteredProperties) + itemsPerPage - 1) \div itemsPerPage

startIndex == (component.currentPage - 1) * itemsPerPage

endIndex == startIndex + itemsPerPage

currentProperties == ArraySlice(component.filteredProperties, startIndex, endIndex)

\* the effect's fetchProperties: the mock data (50 properties), or as many
\* as the API call that replaces it returns
fetchProperties ==
    /\ component.loading
    /\ \E length \in {0, 1, itemsPerPage + 1, mockLength, MaxProperties} :
       \E random \in PropertyStreams :
          component' = [component EXCEPT
                          !.properties = mockProperties(length, random),
                          !.filteredProperties = mockProperties(length, random),
                          !.loading = FALSE]
    /\ UNCHANGED <<applicants, availableUnits, applicantsWithScores, allocated, applicant, score, pc>>
    /\ UNCHANGED <<calls, timers>>

\* a handleSearch that leaves currentPage as it is
handleSearchKeepsPage(query, filters) ==
    /\ ~component.loading
    /\ LET Test(property) == Matches(property, query, filters)
       IN  component' = [component EXCEPT
               !.filteredProperties =
                   SortProperties(filters.sortBy,
                                  SelectSeq(component.properties, Test))]
    /\ UNCHANGED <<applicants, availableUnits, applicantsWithScores, allocated, applicant, score, pc>>
    /\ UNCHANGED <<calls, timers>>

\* handleSearch(query, filters), the onSearch of the SearchBar
handleSearch(query, filters) ==
    /\ ~component.loading
    /\ LET Test(property) == Matches(property, query, filters)
       IN  component' = [component EXCEPT
               !.filteredProperties =
                   SortProperties(filters.sortBy,
                                  SelectSeq(component.properties, Test)),
               !.currentPage = 1]
    /\ UNCHANGED <<applicants, availableUnits, applicantsWithScores, allocated, applicant, score, pc>>
    /\ UNCHANGED <<calls, timers>>

\* the Previous button, disabled on page 1
ClickPrevious ==
    /\ ~component.loading
    /\ totalPages > 1
    /\ component.currentPage # 1
    /\ component' = [component EXCEPT !.currentPage = component.currentPage - 1]
    /\ UNCHANGED <<applicants, availableUnits, applicantsWithScores, allocated, applicant, score, pc>>
    /\ UNCHANGED <<calls, timers>>

\* the i-th of the up to five page-number buttons, rendered when its page
\* is not beyond totalPages
ClickPage(i) ==
    /\ ~component.loading
    /\ totalPages > 1
    /\ i < (IF totalPages < 5 THEN totalPages ELSE 5)
    /\ LET page == IF component.currentPage <= 3 THEN i + 1
                   ELSE component.currentPage - 2 + i
       IN  /\ page <= totalPages
           /\ component' = [component EXCEPT !.currentPage = page]
    /\ UNCHANGED <<applicants, availableUnits, applicantsWithScores, allocated, applicant, score, pc>>
    /\ UNCHANGED <<calls, timers>>

\* the last-page button behind the ellipsis
ClickLastPage ==
    /\ ~component.loading
    /\ totalPages > 1
    /\ totalPages > 5 /\ component.currentPage < totalPages - 2
    /\ component' = [component EXCEPT !.currentPage = totalPages]
    /\ UNCHANGED <<applicants, availableUnits, applicantsWithScores, allocated, applicant, score, pc>>
    /\ UNCHANGED <<calls, timers>>

\* the Next button, disabled on the last page
ClickNextPage ==
    /\ ~component.loading
    /\ totalPages > 1
    /\ component.currentPage # totalPages
    /\ component' = [component EXCEPT !.currentPage = component.currentPage + 1]
    /\ UNCHANGED <<applicants, availableUnits, applicantsWithScores, allocated, applicant, score, pc>>
    /\ UNCHANGED <<calls, timers>>

NextProperties ==
    \/ fetchProperties
    \/ \E search \in Searches : handleSearch(search[1], search[2])
    \/ ClickPrevious
    \/ \E i \in 0..4 : ClickPage(i)
    \/ ClickLastPage
    \/ ClickNextPage

SpecProperties == InitProperties /\ [][NextProperties]_vars

(***************************************************************************)
(* Properties.                                                             *)
(***************************************************************************)
Min(a, b) == IF a < b THEN a ELSE b

Range(seq) == {seq[i] : i \in DOMAIN seq}

\* four times the value of a number with at most two fractional bits
Times4(x) == (IF x.neg THEN -1 ELSE 1) * BToInt(BShl(x.m, x.e + 2))

\* the Applicant domain: income >= 0, integer family size >= 1, commute >= 0
Valid(a) ==
    /\ ~a.income.neg
    /\ ~a.distanceToWork.neg
    /\ ~a.familySize.neg /\ a.familySize.m # <<>> /\ a.familySize.e >= 0

\* max(0, 100 - income/100000*100)*0.40 + min(familySize*15, 60)*0.25
\*   + (hasDisability ? 30 : 0)*0.20 + max(0, 100 - distanceToWork/50*100)*0.15
\* in real arithmetic, times 100 and rounded half up to an integer: with
\* I4 = 4*income, F = familySize and C4 = 4*distanceToWork the score times
\* 100 is the numerator below over 100
ExactHundredths(a) ==
    LET I4  == Times4(a.income)
        F   == Times4(a.familySize) \div 4
        C4  == Times4(a.distanceToWork)
        inc == IF 400000 - I4 > 0 THEN 400000 - I4 ELSE 0
        fam == IF 15 * F < 60 THEN 15 * F ELSE 60
        dis == IF a.hasDisability THEN 30 ELSE 0
        com == IF 400 - 2 * C4 > 0 THEN 400 - 2 * C4 ELSE 0
        numerator == inc + 2500 * fam + 2000 * dis + 375 * com
    IN  (numerator + 50) \div 100

ScorerDone == pc = "done" /\ score # <<>>

\* C1: for every applicant of the Applicant domain calculateFairnessScore
\* returns exactly the weighted sum of the four sub-scores, in real
\* arithmetic, rounded half up to hundredths.
C1_ScoreIsExactRounding ==
    (ScorerDone /\ Valid(applicant)) => score[1] = ExactHundredths(applicant)

\* C5: over the Applicant domain the score never exceeds 76.00, and it is
\* 76.00 for income 0, family size >= 4, a disability and commute 0.
C5_MaximumScore ==
    (ScorerDone /\ Valid(applicant)) =>
        /\ score[1] <= 7600
        /\ (/\ applicant.income = FZero
            /\ Times4(applicant.familySize) >= 16
            /\ applicant.hasDisability
            /\ applicant.distanceToWork = FZero) => score[1] = 7600

C5_Witness ==
    /\ ScorerDone
    /\ applicant.income = FZero
    /\ applicant.familySize = FromInt(6)
    /\ applicant.hasDisability
    /\ applicant.distanceToWork = FZero
    /\ score = <<7600>>

AllocatorDone == pc = "done" /\ score = <<>>

ScoreOf(a) == a.fairnessScore[1]

Ids(seq) == {seq[i].id : i \in DOMAIN seq}

\* an applicant's id, name, income, familySize, hasDisability, distanceToWork
SixFields(a) == [a EXCEPT !.fairnessScore = <<>>]

FourFields(a) == <<a.income, a.familySize, a.hasDisability, a.distanceToWork>>

\* the input applicant a result entry has the id of
InputOf(r) == CHOOSE a \in Range(applicants) : a.id = r.id

\* the score the call computed for an input applicant
ComputedScore(a) ==
    ScoreOf(CHOOSE e \in Range(applicantsWithScores) : e.id = a.id)

Descending(seq) ==
    \A j \in 1..(Len(seq) - 1) : ScoreOf(seq[j]) >= ScoreOf(seq[j + 1])

\* applicantsWithScores holds every input applicant once
ScoredAll ==
    /\ Len(applicantsWithScores) = Len(applicants)
    /\ Ids(applicantsWithScores) = Ids(applicants)

\* C2: for a non-negative unit count every applicant in the result has a
\* score greater than or equal to that of every input applicant not in it.
C2_TopN ==
    (AllocatorDone /\ availableUnits >= 0) =>
        /\ ScoredAll
        /\ \A r \in Range(allocated) : \A a \in Range(applicants) :
              a.id \notin Ids(allocated) => ScoreOf(r) >= ComputedScore(a)

\* scores 76.00, 50.00, 10.00 in this order and two units: the first two
C2_Witness ==
    /\ AllocatorDone
    /\ Len(applicants) = 3
    /\ availableUnits = 2
    /\ <<ComputedScore(applicants[1]), ComputedScore(applicants[2]),
         ComputedScore(applicants[3])>> = <<7600, 5000, 1000>>
    /\ Len(allocated) = 2
    /\ allocated[1].id = applicants[1].id /\ ScoreOf(allocated[1]) = 7600
    /\ allocated[2].id = applicants[2].id /\ ScoreOf(allocated[2]) = 5000

\* C3: the result is sorted by score, descending.
C3_SortedDescending == AllocatorDone => Descending(allocated)

C3_Witness ==
    /\ AllocatorDone
    /\ Len(allocated) = 3
    /\ ScoreOf(allocated[1]) > ScoreOf(allocated[2])
    /\ ScoreOf(allocated[2]) > ScoreOf(allocated[3])
    /\ allocated[1].id = applicants[3].id
    /\ allocated[3].id = applicants[1].id

\* C4: for a non-negative unit count N the result has exactly
\* min(N, len(applicants)) entries.
C4_Length ==
    (AllocatorDone /\ availableUnits >= 0) =>
        Len(allocated) = Min(availableUnits, Len(applicants))

C4_Witness ==
    /\ AllocatorDone
    /\ availableUnits = 2
    /\ Len(applicants) = 3
    /\ Len(allocated) = 2

\* C6: the fairnessScore of a result entry is computed from income,
\* familySize, hasDisability and distanceToWork alone: entries that agree on
\* these four carry equal scores whatever their id, their name and the
\* fairnessScore the input object carried.
C6_ScoreFromFourFields ==
    AllocatorDone =>
        \A r \in Range(allocated) :
            /\ r.fairnessScore # <<>>
            /\ \A q \in Range(allocated) :
                  FourFields(r) = FourFields(q) => r.fairnessScore = q.fairnessScore

C6_Witness ==
    /\ AllocatorDone
    /\ \E r, q \in Range(allocated) :
          /\ FourFields(r) = FourFields(q)
          /\ r.id # q.id /\ r.name # q.name
          /\ InputOf(r).fairnessScore = <<>>
          /\ InputOf(q).fairnessScore = <<100>>
          /\ r.fairnessScore = <<7600>> /\ q.fairnessScore = <<7600>>

\* C7: no step of allocateHousing changes the input array: its length, its
\* order, and every field of every applicant in it, fairnessScore included.
C7_InputNotMutated == [][applicants' = applicants]_vars

C7_Witness ==
    /\ AllocatorDone
    /\ Len(applicants) = 3
    /\ Len(allocated) = 3
    /\ allocated[1].id = applicants[3].id
    /\ applicants[3].fairnessScore = <<>>
    /\ applicants[1].fairnessScore = <<9999>>

\* C8: every result entry carries the id, name, income, familySize,
\* hasDisability and distanceToWork of one input applicant, and no input
\* applicant is in the result twice.
C8_FieldsPreserved ==
    AllocatorDone =>
        /\ \A j \in DOMAIN allocated :
              \E i \in DOMAIN applicants :
                  SixFields(allocated[j]) = SixFields(applicants[i])
        /\ \A j, k \in DOMAIN allocated :
              allocated[j].id = allocated[k].id => j = k

C8_Witness ==
    /\ AllocatorDone
    /\ Len(allocated) = 2
    /\ Len(applicants) = 3
    /\ allocated[1].id = applicants[3].id
    /\ allocated[2].id = applicants[2].id
    /\ applicants[3].fairnessScore = <<100>>

\* C9, as stated: for a non-negative unit count the result is a strict
\* prefix of the score-descending sorted population, of length
\* min(availableUnits, population size).
C9_StrictPrefix ==
    (AllocatorDone /\ availableUnits >= 0) =>
        /\ Len(allocated) = Min(availableUnits, Len(applicants))
        /\ allocated = SubSeq(applicantsWithScores, 1, Len(allocated))
        /\ Len(allocated) < Len(applicantsWithScores)

\* C9, amended: for a non-negative unit count the result is the prefix of
\* length min(availableUnits, population size) of the score-descending
\* sorted population, a strict prefix exactly when availableUnits is below
\* the population size.
C9_Prefix ==
    (AllocatorDone /\ availableUnits >= 0) =>
        /\ ScoredAll
        /\ Descending(applicantsWithScores)
        /\ Len(allocated) = Min(availableUnits, Len(applicants))
        /\ allocated = SubSeq(applicantsWithScores, 1, Len(allocated))
        /\ (Len(allocated) < Len(applicantsWithScores)
              <=> availableUnits < Len(applicants))

C9_Witness ==
    /\ AllocatorDone
    /\ availableUnits = 1
    /\ Len(applicants) = 3
    /\ Len(allocated) = 1
    /\ allocated[1].id = applicants[2].id
    /\ ScoreOf(allocated[1]) > ComputedScore(applicants[1])
    /\ ScoreOf(allocated[1]) > ComputedScore(applicants[3])

\* C10: with more units than applicants the result is the whole population:
\* every input applicant once, with its score, sorted by score descending.
C10_WholePopulation ==
    (AllocatorDone /\ availableUnits > Len(applicants)) =>
        /\ Len(allocated) = Len(applicants)
        /\ Descending(allocated)
        /\ \A i \in DOMAIN applicants :
              \E j \in DOMAIN allocated :
                  /\ SixFields(allocated[j]) = SixFields(applicants[i])
                  /\ allocated[j].fairnessScore
                       = <<calculateFairnessScore(applicants[i])>>

C10_Witness ==
    /\ AllocatorDone
    /\ availableUnits = 4
    /\ Len(applicants) = 3
    /\ Len(allocated) = 3
    /\ allocated[1].id = applicants[2].id
    /\ allocated[2].id = applicants[3].id
    /\ allocated[3].id = applicants[1].id

\* C11: allocateHousing(applicants, 0) returns the empty sequence for every
\* non-empty applicant population.
C11_ZeroUnits ==
    (AllocatorDone /\ availableUnits = 0 /\ Len(applicants) >= 1) =>
        allocated = <<>>

C11_Witness ==
    /\ AllocatorDone
    /\ availableUnits = 0
    /\ Len(applicants) = 3
    /\ Len(applicantsWithScores) = 3
    /\ allocated = <<>>

\* the value of an integer-valued number
IntOf(x) == Times4(x) \div 4

\* x >= n for an integer n
AtLeast(x, n) == ~FLess(x, FromInt(n))

\* the applicants agree on the input fields other than the named one
SameButDisability(a, b) ==
    /\ a.income = b.income /\ a.familySize = b.familySize
    /\ a.distanceToWork = b.distanceToWork

SameButFamilySize(a, b) ==
    /\ a.income = b.income /\ a.hasDisability = b.hasDisability
    /\ a.distanceToWork = b.distanceToWork

SameButIncome(a, b) ==
    /\ a.familySize = b.familySize /\ a.hasDisability = b.hasDisability
    /\ a.distanceToWork = b.distanceToWork

SameButDistance(a, b) ==
    /\ a.income = b.income /\ a.familySize = b.familySize
    /\ a.hasDisability = b.hasDisability

\* C12: of two applicants of the Applicant domain that are identical except
\* that one has hasDisability = true and the other false, the returned score
\* of the first is exactly 6.00 higher than that of the second.
C12_DisabilityAddsSix ==
    AllocatorDone =>
        \A a, b \in Range(applicants) :
            (/\ Valid(a) /\ Valid(b)
             /\ SameButDisability(a, b)
             /\ a.hasDisability /\ ~b.hasDisability)
                => ComputedScore(a) = ComputedScore(b) + 600

\* C13: the family-size sub-score is min(15 * familySize, 60); of two
\* applicants that differ only in family size, one more member up to 4 adds
\* exactly 15 points to the sub-score and 3.75 to the score, and with both
\* sizes >= 4 both sub-scores are exactly 60 and the scores are equal.
C13_FamilySubScore ==
    AllocatorDone =>
        \A a, b \in Range(applicants) :
            (Valid(a) /\ Valid(b) /\ SameButFamilySize(a, b)) =>
                /\ familySizeScore(a)
                     = FromInt(Min(15 * IntOf(a.familySize), 60))
                /\ (/\ IntOf(b.familySize) = IntOf(a.familySize) + 1
                    /\ IntOf(b.familySize) <= 4) =>
                        /\ familySizeScore(b)
                             = FAdd(familySizeScore(a), FromInt(15))
                        /\ ComputedScore(b) = ComputedScore(a) + 375
                /\ (IntOf(a.familySize) >= 4 /\ IntOf(b.familySize) >= 4) =>
                        /\ familySizeScore(a) = FromInt(60)
                        /\ familySizeScore(b) = FromInt(60)
                        /\ ComputedScore(a) = ComputedScore(b)

\* C14: the income sub-score is exactly 0 for every applicant with income
\* >= 100000 and exactly 100 for every applicant with income 0, and two
\* applicants that differ only in income, both >= 100000, get the same
\* score.
C14_IncomeSubScore ==
    AllocatorDone =>
        \A a, b \in Range(applicants) :
            /\ AtLeast(a.income, maxIncome) => incomeScore(a) = FZero
            /\ a.income = FZero => incomeScore(a) = FromInt(100)
            /\ (/\ SameButIncome(a, b)
                /\ AtLeast(a.income, maxIncome)
                /\ AtLeast(b.income, maxIncome))
                   => ComputedScore(a) = ComputedScore(b)

C14_Witness ==
    /\ AllocatorDone
    /\ Len(allocated) = 2
    /\ applicants[1].income = Num(100000, 0)
    /\ applicants[2].income = Num(150000, 0)
    /\ SameButIncome(applicants[1], applicants[2])
    /\ applicants[1].familySize = FromInt(4)
    /\ applicants[1].hasDisability
    /\ applicants[1].distanceToWork = FZero
    /\ ScoreOf(allocated[1]) = 3600
    /\ ScoreOf(allocated[2]) = 3600

\* C15: the commute sub-score is exactly 0 for every applicant with commute
\* distance >= 50, and two applicants that differ only in commute distance,
\* both >= 50, get the same score.
C15_CommuteSubScore ==
    AllocatorDone =>
        \A a, b \in Range(applicants) :
            /\ AtLeast(a.distanceToWork, maxDistance) => distanceScore(a) = FZero
            /\ (/\ SameButDistance(a, b)
                /\ AtLeast(a.distanceToWork, maxDistance)
                /\ AtLeast(b.distanceToWork, maxDistance))
                   => ComputedScore(a) = ComputedScore(b)

C15_Witness ==
    /\ AllocatorDone
    /\ Len(allocated) = 2
    /\ applicants[1].distanceToWork = Num(50, 0)
    /\ applicants[2].distanceToWork = Num(60, 0)
    /\ SameButDistance(applicants[1], applicants[2])
    /\ applicants[1].income = FZero
    /\ applicants[1].familySize = FromInt(4)
    /\ applicants[1].hasDisability
    /\ ScoreOf(allocated[1]) = 6100
    /\ ScoreOf(allocated[2]) = 6100

\* C16: calculateFairnessScore is total and side-effect free: for every
\* applicant, also with negative income, zero or negative family size or
\* negative commute distance, the call ends by returning a number, not in
\* an error, and leaves the applicant record it was given unchanged.
C16_TotalAndPure ==
    [][pc = "score" =>
          /\ pc' = "done"
          /\ Len(score') = 1 /\ score'[1] \in Int
          /\ applicant' = applicant]_vars

C16_Witness ==
    /\ ScorerDone
    /\ applicant.income = Num(-50000, 0)
    /\ applicant.familySize = FromInt(-1)
    /\ ~applicant.hasDisability
    /\ applicant.distanceToWork = Num(-10, 0)
    /\ score = <<7425>>

\* the statements a call of allocateHousing still has to run: the map
\* callbacks left, then the sort, then the return
Remaining ==
    (Len(applicants) - Len(applicantsWithScores))
      + (IF pc = "map" THEN 2 ELSE IF pc = "slice" THEN 1 ELSE 0)

\* C17: allocateHousing has no failure outcome: for every applicant
\* sequence, the empty one included, and every unit count, zero, positive,
\* larger than the population or negative, every step of the call leaves
\* one statement fewer to run and none ends in an error, and what the call
\* returns is a sequence of scored applicants in descending score order.
C17_NoFailure ==
    [][/\ pc' \in {"map", "slice", "done"}
       /\ Remaining' = Remaining - 1
       /\ pc' = "done" =>
             /\ Remaining' = 0
             /\ DOMAIN allocated' = 1..Len(allocated')
             /\ \A j \in DOMAIN allocated' : allocated'[j].fairnessScore # <<>>
             /\ \A j \in 1..(Len(allocated') - 1) :
                   ScoreOf(allocated'[j]) >= ScoreOf(allocated'[j + 1])]_vars

C17_Witness ==
    /\ AllocatorDone
    /\ availableUnits = -1
    /\ Len(applicants) = 3
    /\ Len(allocated) = 2
    /\ ScoreOf(allocated[1]) > ScoreOf(allocated[2])

\* x lies in lo .. hi, for integers lo and hi
InRange(x, lo, hi) == AtLeast(x, lo) /\ ~FLess(FromInt(hi), x)

\* C19: for every input the scorer accepts, negative and out-of-range values
\* included, the income and commute sub-scores lie in 0..100, the family
\* sub-score in 0..60, the disability sub-score is 0 or 30, and the
\* returned score lies between 0 and 76.00.
C19_Clamped ==
    ScorerDone =>
        /\ InRange(incomeScore(applicant), 0, 100)
        /\ InRange(distanceScore(applicant), 0, 100)
        /\ InRange(familySizeScore(applicant), 0, 60)
        /\ disabilityScore(applicant) \in {FromInt(0), FromInt(30)}
        /\ score[1] >= 0
        /\ score[1] <= 7600

\* C18: with the statements of the calls of several callers interleaved
\* over one applicant array, no step changes the array, and every call
\* returns what a call running alone returns for its unit count: the first
\* availableUnits entries of the array the call that ran alone sorted.
C18_Interleaving ==
    /\ [][applicants' = applicants]_vars
    /\ [](\A c \in DOMAIN calls :
            calls[c].pc = "done" =>
                /\ pc = "done"
                /\ calls[c].allocated
                     = ArraySlice(applicantsWithScores, 0, calls[c].availableUnits))

\* the first caller has its result while the second is between its sort and
\* its return
C18_Witness ==
    /\ Len(applicants) = 3
    /\ calls[1].pc = "done"
    /\ calls[1].availableUnits = 1
    /\ Len(calls[1].allocated) = 1
    /\ calls[1].allocated[1].id = applicants[3].id
    /\ calls[2].pc = "slice"
    /\ calls[2].availableUnits = 0
    /\ calls[2].applicantsWithScores[1].id = applicants[3].id

\* C20: after any sequence of edits of the Available Units input, the
\* availableUnits that FairHousingAllocator passes to allocateHousing is an
\* integer >= 0.
C20_UnitsValidated ==
    pc \in {"map", "slice", "done"} => availableUnits \in Nat

\* the position in the input of the applicant a result entry was made from
InputIndex(r) == CHOOSE i \in DOMAIN applicants : applicants[i].id = r.id

\* C21: ties are broken by input order. Two entries of the result with
\* equal scores stand in the order their applicants have in the input, and
\* an applicant left out of the result that scores the same as a selected
\* one comes later in the input than the selected one.
C21_StableTies ==
    AllocatorDone =>
        /\ \A j, k \in DOMAIN allocated :
              j < k /\ ScoreOf(allocated[j]) = ScoreOf(allocated[k])
                  => InputIndex(allocated[j]) < InputIndex(allocated[k])
        /\ \A r \in Range(allocated) : \A i \in DOMAIN applicants :
              /\ applicants[i].id \notin Ids(allocated)
              /\ ComputedScore(applicants[i]) = ScoreOf(r)
              => InputIndex(r) < i

\* a tie at 76.00 between the second and the third applicant straddles the
\* cut-off of one unit, and the second is selected
C21_Witness ==
    /\ AllocatorDone
    /\ Len(applicants) = 3
    /\ availableUnits = 1
    /\ Len(allocated) = 1
    /\ allocated[1].id = applicants[2].id
    /\ ScoreOf(allocated[1]) = 7600
    /\ ComputedScore(applicants[3]) = 7600
    /\ ComputedScore(applicants[1]) < 7600

\* C25: for a negative availableUnits = -k the result is the
\* score-descending sorted population without its last k entries, a
\* sequence of length max(0, Len(applicants) - k), which is not empty when
\* the population has more than k applicants.
C25_NegativeUnits ==
    AllocatorDone /\ availableUnits < 0 =>
        LET k    == -availableUnits
            kept == IF Len(applicants) > k THEN Len(applicants) - k ELSE 0
        IN  /\ ScoredAll
            /\ Descending(applicantsWithScores)
            /\ Len(allocated) = kept
            /\ allocated = SubSeq(applicantsWithScores, 1, kept)
            /\ Len(applicants) > k => allocated # <<>>

\* with -1 units and three applicants the two best are returned and the
\* lowest-scoring one is dropped
C25_Witness ==
    /\ AllocatorDone
    /\ availableUnits = -1
    /\ Len(applicants) = 3
    /\ Len(allocated) = 2
    /\ allocated = SubSeq(applicantsWithScores, 1, 2)
    /\ applicantsWithScores[3].id \notin Ids(allocated)
    /\ ScoreOf(applicantsWithScores[3]) < ScoreOf(allocated[2])

\* a differs from b in one factor only, and in the direction the scorer's
\* documentation names: lower income, larger family, a disability, or a
\* shorter commute
Favoured(a, b) ==
    \/ SameButIncome(a, b) /\ FLess(a.income, b.income)
    \/ SameButFamilySize(a, b) /\ FLess(b.familySize, a.familySize)
    \/ SameButDisability(a, b) /\ a.hasDisability /\ ~b.hasDisability
    \/ SameButDistance(a, b) /\ FLess(a.distanceToWork, b.distanceToWork)

\* C23: of two applicants that are identical except in one factor, the one
\* with the lower income, or the larger family, or a disability, or the
\* shorter commute receives a higher fairness score than the other.
C23_StrictlyHigher ==
    AllocatorDone =>
        \A a, b \in Range(applicants) :
            Valid(a) /\ Valid(b) /\ Favoured(a, b)
                => ComputedScore(a) > ComputedScore(b)

\* the caller's second call has returned
SecondDone == AllocatorDone /\ Len(calls) = 1

\* the fairness scores of a result, in its order
Scores(seq) == [j \in DOMAIN seq |-> ScoreOf(seq[j])]

\* no two entries of a scored array have equal scores
NoTies(seq) ==
    \A j, k \in DOMAIN seq : j # k => ScoreOf(seq[j]) # ScoreOf(seq[k])

\* C22: allocateHousing is order-insensitive. Called with a permutation of
\* the same applicants and the same non-negative unit count, it returns the
\* same sequence of fairness scores, and when no two applicants have equal
\* scores it returns the identical sequence of applicants.
C22_OrderInsensitive ==
    (/\ SecondDone
     /\ availableUnits >= 0
     /\ Len(applicants) = Len(calls[1].applicants)
     /\ Range(applicants) = Range(calls[1].applicants))
        => /\ Scores(allocated) = Scores(calls[1].allocated)
           /\ NoTies(applicantsWithScores) => allocated = calls[1].allocated

\* three applicants without ties, given in reversed order the second time,
\* and two units: both calls return the same two applicants
C22_Witness ==
    /\ SecondDone
    /\ availableUnits = 2
    /\ Len(applicants) = 3
    /\ \A i \in 1..3 : applicants[i] = calls[1].applicants[4 - i]
    /\ NoTies(applicantsWithScores)
    /\ Len(allocated) = 2
    /\ allocated = calls[1].allocated
    /\ allocated[1].id = applicants[2].id

\* the second call's applicants are the first call's but for the applicant
\* at i, which has one field changed in the favoured direction
ImprovedAt(i) ==
    /\ Len(applicants) = Len(calls[1].applicants)
    /\ \A j \in DOMAIN applicants :
          j # i => applicants[j] = calls[1].applicants[j]
    /\ applicants[i].id = calls[1].applicants[i].id
    /\ Favoured(applicants[i], calls[1].applicants[i])

\* the score the array scored gives the applicant with the id of a
ScoreIn(scored, a) ==
    ScoreOf(CHOOSE r \in Range(scored) : r.id = a.id)

\* C24: the score is monotone in each factor over the valid domain. An
\* applicant changed in one field only, by a lower income, a larger family,
\* a disability or a shorter commute, scores no lower than before; and when
\* the other applicants are unchanged and no scores tie, an applicant that
\* was in the allocation before the change is in it after the change.
C24_Monotone ==
    SecondDone =>
        \A i \in DOMAIN applicants :
            (ImprovedAt(i) /\ Valid(applicants[i]) /\ Valid(calls[1].applicants[i]))
                => /\ ScoreIn(applicantsWithScores, applicants[i])
                        >= ScoreIn(calls[1].applicantsWithScores, applicants[i])
                   /\ (/\ NoTies(applicantsWithScores)
                       /\ NoTies(calls[1].applicantsWithScores)
                       /\ applicants[i].id \in Ids(calls[1].allocated))
                          => applicants[i].id \in Ids(allocated)

\* the first of three applicants, allocated the second of two units with
\* 50.00, is given an income of 0: it scores 70.00, moves to the first
\* place and stays allocated
C24_Witness ==
    /\ SecondDone
    /\ availableUnits = 2
    /\ Len(applicants) = 3
    /\ ImprovedAt(1)
    /\ NoTies(applicantsWithScores)
    /\ NoTies(calls[1].applicantsWithScores)
    /\ calls[1].allocated[2].id = applicants[1].id
    /\ ScoreIn(calls[1].applicantsWithScores, applicants[1]) = 5000
    /\ ScoreIn(applicantsWithScores, applicants[1]) = 7000
    /\ allocated[1].id = applicants[1].id

\* C26: at the moment an allocation completes (loading turns false), the
\* number of allocated applicants shown equals min(availableUnits shown at
\* that moment, applicants.length), whatever Run clicks, timer firings and
\* edits of the units input came before.
C26_ShownCount ==
    [][(component.loading /\ ~component'.loading)
          => Len(component'.allocatedApplicants)
                = Min(component'.availableUnits, Len(component'.applicants))]_vars

\* C27: a Run click is accepted only while loading is false, and sets
\* loading and clears the previous result; from the click until the
\* callback has finished loading stays true and there is one pending timer
\* or one running call, never two; and, the timer firing and its callback
\* running, loading eventually turns false, with allocatedApplicants set to
\* what allocateHousing returned for the applicants of the component.
C27_RunCompletes ==
    /\ [][Len(timers') > Len(timers)
            => /\ ~component.loading
               /\ component'.loading
               /\ component'.allocatedApplicants = <<>>]_vars
    /\ [](/\ Len(timers) + (IF pc = "idle" THEN 0 ELSE 1) <= 1
          /\ component.loading <=> (timers # <<>> \/ pc # "idle"))
    /\ [][(component.loading /\ ~component'.loading)
            => /\ pc = "done"
               /\ applicants = component.applicants
               /\ allocated = ArraySlice(applicantsWithScores, 0, availableUnits)
               /\ component'.allocatedApplicants = allocated]_vars
    /\ (component.loading ~> ~component.loading)

\* a run with the default 10 units has completed: ten applicants are shown
C27_Witness ==
    /\ component.mounted
    /\ ~component.loading
    /\ component.availableUnits = 10
    /\ Len(component.allocatedApplicants) = 10
    /\ timers = <<>>
    /\ pc = "idle"

\* x is an integer in lo .. hi
IntegerIn(x, lo, hi) == (x.m = <<>> \/ x.e >= 0) /\ InRange(x, lo, hi)

C29_PageInRange ==
    /\ totalPages * itemsPerPage >= Len(component.filteredProperties)
    /\ (totalPages - 1) * itemsPerPage < Len(component.filteredProperties)
          \/ Len(component.filteredProperties) = 0
    /\ component.currentPage >= 1
    /\ component.currentPage <= (IF totalPages > 1 THEN totalPages ELSE 1)
    /\ component.filteredProperties # <<>> => currentProperties # <<>>

\* the last-page button was clicked on a list of 73 properties: page 7 of 7
\* shows the one property left
C29_Witness ==
    /\ ~component.loading
    /\ Len(component.filteredProperties) = MaxProperties
    /\ totalPages = 7
    /\ component.currentPage = 7
    /\ Len(currentProperties) = 1

====
